---- MODULE Spec2Model ----
(***************************************************************************)
(* The Amass enumeration engine: Enumeration (CheckConfig, Start, the      *)
(* engine events), the data sources PTRArchive and Crtsh, and the services *)
(* the events hand requests to.  The flow limiter, the dedup filters, the  *)
(* NameService, the DNSService and the shared service base are modelled    *)
(* from their description; everything else follows the Go source.          *)
(***************************************************************************)
EXTENDS Integers, Sequences, FiniteSets, TLC

\* ------------------------------------------------------------------ bounds
\* Names one executeQuery extracts from a page (calls of NewNameEvent per source).
MaxEmit == 2
\* Values a page of a queried source holds.
PageLen == 2
\* Domains of the configuration that startRootDomains goes through.
NumDomains == 2
\* The log lines of a query are counted modulo LogWrap.
LogWrap == 2
\* Buffer of the links and of the names channel of crawl (50 in crawl).
ChanCap == 1
\* Links of a page that match the domain.
PageHrefs == 2
\* Pages one crawl fetches.
MaxPages == 2
\* Capacity of the flow limiter in the model (ToMaxFlow gives 10..10000).
FlowCap == 1
\* Auto-releases of the flow limiter that the model follows.
MaxAuto == 1
\* Buffer of the Output channel in the model (100 in NewEnumeration).
OutputCap == 1

\* --------------------------------------------------------------- constants
OUTPUT == "amass:output"
ALT == "alt"
ARCHIVE == "archive"
API == "api"
AXFR == "axfr"
BRUTE == "brute"
CERT == "cert"
DNS == "dns"
SCRAPE == "scrape"

Paranoid == 0
Sneaky == 1
Polite == 2
Normal == 3
Aggressive == 4
Insane == 5

WildcardTypeNone == "none"
WildcardTypeStatic == "static"
WildcardTypeDynamic == "dynamic"

Nil == "nil"

Min(a, b) == IF a < b THEN a ELSE b

\* ---------------------------------------------------------------- strings
\* A name is a sequence of labels; a label is a short string.
Lower(l) == CASE l = "A" -> "a" [] l = "B" -> "b" [] l = "D" -> "d" [] OTHER -> l

ToLower(s) == [i \in DOMAIN s |-> Lower(s[i])]

RECURSIVE RemoveAsteriskLabel(_)
RemoveAsteriskLabel(s) ==
    IF s # <<>> /\ Head(s) = "*" THEN RemoveAsteriskLabel(Tail(s)) ELSE s

IsSuffix(suf, s) ==
    /\ Len(suf) <= Len(s)
    /\ SubSeq(s, Len(s) - Len(suf) + 1, Len(s)) = suf

\* The names a page can yield, and the domains a request can carry.
RawNames ==
    { <<>>, <<"*">>, <<"a", "d">>, <<"A", "d">>, <<"*", "a", "d">>, <<"b", "d">> }
RawDomains == { <<>>, <<"d">>, <<"D">> }
\* A request: nil, or its name and domain; Match tells whether the answers
\* the DNSService found for it are those of the zone's wildcard.
NilReq == [IsNil |-> TRUE, Name |-> <<>>, Domain |-> <<>>, Match |-> FALSE]
RawRequests ==
    {NilReq} \cup [IsNil : {FALSE}, Name : RawNames, Domain : RawDomains, Match : {FALSE}]

Blacklist == { <<"b", "d">> }
Blacklisted(name) == \E b \in Blacklist : IsSuffix(b, name)

\* --------------------------------------------------------------- services
DataSources == <<"PTRArchive", "Crtsh">>
Sources == { DataSources[i] : i \in DOMAIN DataSources }
SourceType(s) == IF s = "Crtsh" THEN CERT ELSE SCRAPE

AllServices ==
    { "DNSService", "DataManagerService", "ActiveCertService", "NameService",
      "AddressService", "AlterationService", "BruteForceService" } \cup Sources

Calls == Sources \X (1 .. MaxEmit)

TrustedTag(tag) == tag = DNS \/ tag = CERT \/ tag = ARCHIVE \/ tag = AXFR

ToMaxFlow(t) ==
    CASE t = Paranoid -> 10
      [] t = Sneaky -> 30
      [] t = Polite -> 100
      [] t = Normal -> 333
      [] t = Aggressive -> 1000
      [] t = Insane -> 10000
      [] OTHER -> 0

\* The settings Start reads: e.Config, whether e.Output is there, whether
\* e.DataOptsWriter is set, and whether Config.Domains() holds a domain.
\* Every combination of them:
AllConfigs ==
    [Passive : BOOLEAN, BruteForcing : BOOLEAN, Active : BOOLEAN,
     Alterations : BOOLEAN, Timing : {Paranoid}, HasOutput : BOOLEAN,
     DataOptsWriter : BOOLEAN, HasDomains : BOOLEAN]

\* The configurations an enumeration is started with.
Configs ==
    { cfg \in AllConfigs :
        /\ ~cfg.BruteForcing /\ ~cfg.Active /\ cfg.HasOutput /\ ~cfg.DataOptsWriter
        /\ cfg.HasDomains }

\* The sources whose startRootDomains is followed query by query.
QuerySources == {"Crtsh", "DNSDumpster"}

VARIABLES
    Config,             \* e.Config
    wildcard,           \* the DNSService's classification of the zone
    startPC,            \* where Start is: idle, loop, grace, closed, error
    paused,             \* the loop took a Pause last: its ticker is stopped
    Done,               \* e.Done is closed
    Output,             \* e.Output: the buffered discoveries
    outputClosed,       \* e.Output is closed
    exitBy,             \* how the lifecycle loop was left: none, done, tick
    idleTick,           \* some tick found every started service inactive
    heldAtExit,         \* undelivered work existed when quiescence was declared
    sendOnClosed,       \* an OutputEvent sent on the closed channel
    MaxFlow,            \* permits available in e.MaxFlow
    autoReleases,       \* permits the limiter released by itself
    trustedNameFilter,
    otherNameFilter,
    srcPC,              \* per source: off, fetch, emit, done
    st,                 \* per call of NewNameEvent: where its request is
    req,                \* per call: the request after normalisation
    acquired,           \* per call: it took a permit
    released,           \* per call: how often its permit was released
    active,             \* per service: the activity flag
    stopped,            \* Stop was called on the services
    oneShot,            \* per service: SendRequest tasks spawned, not yet run
    inbox,              \* per service: inbound requests not yet consumed
    drain,              \* per source: its processRequests task
    hasMaxFlow,         \* CheckConfig has created e.MaxFlow
    tickPending,        \* the channel of the stopped ticker holds a tick
    started,            \* the services whose Start returned without error
    strayPoll,          \* a tick polled a service that was never started
    query,              \* per querying source: where its startRootDomains is
    crawler,            \* one call of crawl, its channels and the response handler
    pauseLog            \* what was in flight at the last Pause, and whether Resume came

vars ==
    << Config, wildcard, startPC, paused, Done, Output, outputClosed, exitBy, idleTick,
       heldAtExit, sendOnClosed, MaxFlow, autoReleases, trustedNameFilter,
       otherNameFilter, srcPC, st, req, acquired, released, active, stopped,
       oneShot, inbox, drain, hasMaxFlow, tickPending, started,
       strayPoll, query, crawler, pauseLog >>

\* Mutant: the flow limiter is created without a permit.
Capacity_None == Min(0, FlowCap)

\* The permits of the flow limiter CheckConfig creates.
Capacity == Min(ToMaxFlow(Config.Timing), FlowCap)

Tag(c) == SourceType(c[1])

\* The enumeration as NewEnumeration leaves it.
InitState ==
    /\ startPC = "idle"
    /\ paused = FALSE
    /\ Done = FALSE
    /\ Output = <<>>
    /\ outputClosed = FALSE
    /\ exitBy = "none"
    /\ idleTick = FALSE
    /\ heldAtExit = FALSE
    /\ sendOnClosed = FALSE
    /\ MaxFlow = 0
    /\ autoReleases = 0
    /\ trustedNameFilter = {}
    /\ otherNameFilter = {}
    /\ srcPC = [s \in Sources |-> "off"]
    /\ st = [c \in Calls |-> "none"]
    /\ req = [c \in Calls |-> NilReq]
    /\ acquired = [c \in Calls |-> FALSE]
    /\ released = [c \in Calls |-> 0]
    /\ active = [s \in AllServices |-> FALSE]
    /\ stopped = {}
    /\ oneShot = [s \in AllServices |-> 0]
    /\ inbox = [s \in AllServices |-> 0]
    /\ drain = [s \in Sources |-> "off"]
    /\ hasMaxFlow = FALSE
    /\ tickPending = FALSE
    /\ started = {}
    /\ strayPoll = FALSE
    /\ query = [s \in QuerySources |->
                  [pc |-> "off", domain |-> 1, page |-> <<>>, pos |-> 1, logs |-> 0]]
    /\ crawler = [pc |-> "off", links |-> 0, names |-> 0, handler |-> "idle",
                  hrefs |-> 0, pending |-> 0, fetched |-> 0, timer |-> FALSE,
                  cancelled |-> FALSE, qdone |-> FALSE, quit |-> FALSE]
    /\ pauseLog = [inFlight |-> {}, resumed |-> FALSE]

\* An enumeration with the default of Alterations, in any zone.
Init ==
    /\ Config \in { cfg \in Configs : cfg.Alterations }
    /\ wildcard \in {WildcardTypeNone, WildcardTypeStatic, WildcardTypeDynamic}
    /\ InitState

\* ------------------------------------------------------------ service base
\* BaseAmassService.SetActive.
SetActive(act, s) == [act EXCEPT ![s] = TRUE]

\* The flow limiter: Release returns one permit, never beyond the capacity.
Released(n) == Min(Capacity, n + 1)

\* -------------------------------------------------------------- lifecycle
\* Mutant: the check of the data operations writer is missing.
CheckConfig_NoWriterCheck(cfg) ==
    IF ~cfg.HasOutput
    THEN "The configuration did not have an output channel"
    ELSE IF cfg.Passive /\ cfg.BruteForcing
    THEN "Brute forcing cannot be performed without DNS resolution"
    ELSE IF cfg.Passive /\ cfg.Active
    THEN "Active enumeration cannot be performed without DNS resolution"
    ELSE Nil

\* The error CheckConfig returns before it creates the flow limiter, or Nil.
CheckConfig(cfg) ==
    IF ~cfg.HasOutput
    THEN "The configuration did not have an output channel"
    ELSE IF cfg.Passive /\ cfg.BruteForcing
    THEN "Brute forcing cannot be performed without DNS resolution"
    ELSE IF cfg.Passive /\ cfg.Active
    THEN "Active enumeration cannot be performed without DNS resolution"
    ELSE IF cfg.Passive /\ cfg.DataOptsWriter
    THEN "Data operations cannot be saved without DNS resolution"
    ELSE Nil

\* Mutant: the selection ignores Passive.
Services_All(cfg) ==
    <<"DNSService", "DataManagerService", "ActiveCertService", "NameService",
      "AddressService", "AlterationService", "BruteForceService">> \o DataSources

\* The services Start selects, in the order it starts, polls and stops them.
Services(cfg) ==
    (IF ~cfg.Passive
     THEN <<"DNSService", "DataManagerService", "ActiveCertService">> ELSE <<>>)
    \o <<"NameService", "AddressService">>
    \o (IF ~cfg.Passive THEN <<"AlterationService", "BruteForceService">> ELSE <<>>)
    \o DataSources

Started(s) == s \in started

\* A started service whose request loop has not been told to quit.
Running(s) == Started(s) /\ s \notin stopped

\* The services of the list before index k; all of them when k is 0.
Before(svcs, k) ==
    { svcs[i] : i \in 1 .. (IF k = 0 THEN Len(svcs) ELSE k - 1) }

\* Start up to the lifecycle loop: CheckConfig, then Start of every service
\* of the list, in order, until one of them returns an error (failing is its
\* index, 0 when none does).  The default wordlist is fetched after the
\* checks; its error is returned once the flow limiter exists.
\* Mutant: startRootDomains queries a domain whatever the list holds.
FirstQuery_Always(cfg) == "fetch"

\* startRootDomains: the loop over Config.Domains() starts the query of the
\* first domain, or returns at once when the list is empty.
FirstQuery(cfg) == IF cfg.HasDomains THEN "fetch" ELSE "done"

StartBegin ==
    /\ startPC = "idle"
    /\ \E fetchFails \in BOOLEAN, failing \in 0 .. Len(Services(Config)) :
        IF CheckConfig(Config) # Nil
        THEN /\ startPC' = "error"
             /\ UNCHANGED << MaxFlow, hasMaxFlow, srcPC, drain, started >>
        ELSE /\ MaxFlow' = Capacity
             /\ hasMaxFlow' = TRUE
             /\ IF fetchFails
                THEN /\ startPC' = "error"
                     /\ UNCHANGED << srcPC, drain, started >>
                ELSE LET up == Before(Services(Config), failing)
                     IN  /\ startPC' = IF failing = 0 THEN "loop" ELSE "error"
                         /\ started' = up
                         /\ srcPC' = [s \in Sources |->
                                        IF s \in up THEN FirstQuery(Config) ELSE "off"]
                         /\ drain' = [s \in Sources |->
                                        IF s \in up THEN "run" ELSE "off"]
    /\ UNCHANGED << Config, wildcard, tickPending,
                    strayPoll, query, crawler, pauseLog, paused, Done, Output, outputClosed, exitBy,
                    idleTick, heldAtExit, sendOnClosed, autoReleases,
                    trustedNameFilter, otherNameFilter, st, req, acquired,
                    released, active, stopped, oneShot, inbox >>

\* The caller closes Done.
CloseDone ==
    /\ ~Done
    /\ startPC \in {"idle", "loop"}
    /\ Done' = TRUE
    /\ UNCHANGED << Config, wildcard, hasMaxFlow, tickPending,
                    started, strayPoll, query, crawler, pauseLog, startPC, paused, Output, outputClosed,
                    exitBy, idleTick, heldAtExit, sendOnClosed, MaxFlow,
                    autoReleases, trustedNameFilter, otherNameFilter, srcPC, st,
                    req, acquired, released, active, stopped, oneShot, inbox,
                    drain >>

\* Work that was handed over and not yet taken: an inbound request a data
\* source has not consumed, or a one-shot event task that has not run.
HeldWork ==
    \/ \E s \in Sources : inbox[s] > 0
    \/ \E s \in AllServices : oneShot[s] > 0
    \/ \E c \in Calls : st[c] \in {"nsSend", "dnsSend", "nsResolved"}

\* Mutant: the Done case returns without stopping the services.
LeaveLoop_DoneSkipsStop(how) ==
    /\ startPC' = "grace"
    /\ exitBy' = how
    /\ heldAtExit' = (how = "tick" /\ HeldWork)
    /\ stopped' = IF how = "done" THEN stopped ELSE Before(Services(Config), 0)
    /\ tickPending' = FALSE

\* The loop is left: t.Stop(), then Stop of every service of the list.  The
\* ticker only matters inside the loop, so paused keeps what the loop last
\* took.
LeaveLoop(how) ==
    /\ startPC' = "grace"
    /\ exitBy' = how
    /\ heldAtExit' = (how = "tick" /\ HeldWork)
    /\ stopped' = Before(Services(Config), 0)
    /\ tickPending' = FALSE

\* case <-e.Done
DoneBreak ==
    /\ startPC = "loop"
    /\ Done
    /\ LeaveLoop("done")
    /\ UNCHANGED << Config, wildcard, hasMaxFlow,
                    started, strayPoll, query, crawler, pauseLog, paused, idleTick, Done, Output, outputClosed,
                    sendOnClosed, MaxFlow, autoReleases, trustedNameFilter,
                    otherNameFilter, srcPC, st, req, acquired, released, active,
                    oneShot, inbox, drain >>

\* Mutant: the pause also empties the queues of the services.
Pause_DropsRequests ==
    /\ startPC = "loop"
    /\ paused' = TRUE
    /\ \E late \in BOOLEAN : tickPending' = (tickPending \/ (~paused /\ late))
    /\ st' = [c \in Calls |-> IF st[c] \in {"nsQueue", "dnsQueue"} THEN "none" ELSE st[c]]
    /\ UNCHANGED << Config, wildcard, hasMaxFlow,
                    started, strayPoll, query, crawler, startPC, Done, Output, outputClosed, exitBy,
                    idleTick, heldAtExit, sendOnClosed, MaxFlow, autoReleases,
                    trustedNameFilter, otherNameFilter, srcPC, req, acquired,
                    released, active, stopped, oneShot, inbox, drain >>

\* case <-e.PauseChan(): Pause hands its signal to the loop, which stops its
\* ticker.  Stop sends no further tick; a tick the running ticker had put in
\* its channel by then (late) stays there with a runtime whose timer channels
\* are buffered, and there is none with a runtime whose timer channels are
\* not.
Pause ==
    /\ startPC = "loop"
    /\ paused' = TRUE
    /\ \E late \in BOOLEAN : tickPending' = (tickPending \/ (~paused /\ late))
    /\ UNCHANGED << Config, wildcard, hasMaxFlow,
                    started, strayPoll, query, crawler, startPC, Done, Output, outputClosed, exitBy,
                    idleTick, heldAtExit, sendOnClosed, MaxFlow, autoReleases,
                    trustedNameFilter, otherNameFilter, srcPC, st, req, acquired,
                    released, active, stopped, oneShot, inbox, drain >>

\* case <-e.ResumeChan(): a new ticker, with a channel of its own.
Resume ==
    /\ startPC = "loop"
    /\ paused' = FALSE
    /\ tickPending' = FALSE
    /\ UNCHANGED << Config, wildcard, hasMaxFlow,
                    started, strayPoll, query, crawler, startPC, Done, Output, outputClosed, exitBy,
                    idleTick, heldAtExit, sendOnClosed, MaxFlow, autoReleases,
                    trustedNameFilter, otherNameFilter, srcPC, st, req, acquired,
                    released, active, stopped, oneShot, inbox, drain >>

\* The index of the first service the tick finds active, 0 when there is none.
FirstActive(svcs) ==
    IF \E i \in DOMAIN svcs : active[svcs[i]]
    THEN CHOOSE i \in DOMAIN svcs :
            /\ active[svcs[i]]
            /\ \A j \in 1 .. (i - 1) : ~active[svcs[j]]
    ELSE 0

\* Mutant: the tick looks at the first service only.
TickDone_FirstOnly(svcs) == ~active[svcs[1]]

\* done of the tick: no service of the list answered IsActive with true.
TickDone(svcs) == FirstActive(svcs) = 0

\* IsActive hands out the flag and resets it; the tick stops polling at the
\* first active service.
Polled(svcs) ==
    LET f == FirstActive(svcs)
    IN  { svcs[i] : i \in 1 .. (IF f = 0 THEN Len(svcs) ELSE f) }

\* case <-t.C: the running ticker delivers a tick, or the channel of the
\* stopped ticker still holds one.
Tick ==
    /\ startPC = "loop"
    /\ ~paused \/ tickPending
    /\ strayPoll' = (strayPoll \/ \E s \in Polled(Services(Config)) : ~Started(s))
    /\ active' = [s \in AllServices |->
                    IF s \in Polled(Services(Config)) THEN FALSE ELSE active[s]]
    /\ idleTick' = (idleTick \/ \A s \in AllServices : Started(s) => ~active[s])
    /\ IF TickDone(Services(Config))
       THEN LeaveLoop("tick")
       ELSE /\ tickPending' = FALSE
            /\ UNCHANGED << startPC, exitBy, heldAtExit, stopped >>
    /\ UNCHANGED << Config, wildcard, hasMaxFlow, started, query, crawler, pauseLog, paused, Done, Output, outputClosed,
                    sendOnClosed, MaxFlow, autoReleases, trustedNameFilter,
                    otherNameFilter, srcPC, st, req, acquired, released, oneShot,
                    inbox, drain >>

\* time.Sleep(2 * time.Second); close(e.Output)
CloseOutput ==
    /\ startPC = "grace"
    /\ startPC' = "closed"
    /\ outputClosed' = TRUE
    /\ UNCHANGED << Config, wildcard, hasMaxFlow, tickPending,
                    started, strayPoll, query, crawler, pauseLog, paused, Done, Output, exitBy, idleTick,
                    heldAtExit, sendOnClosed, MaxFlow, autoReleases,
                    trustedNameFilter, otherNameFilter, srcPC, st, req, acquired,
                    released, active, stopped, oneShot, inbox, drain >>


\* ----------------------------------------------------------- data sources
\* executeQuery: the page is fetched; an error abandons the query.
FetchPage(s) ==
    /\ srcPC[s] = "fetch"
    /\ \E ok \in BOOLEAN :
        IF ok
        THEN /\ srcPC' = [srcPC EXCEPT ![s] = "emit"]
             /\ active' = SetActive(active, s)
        ELSE /\ srcPC' = [srcPC EXCEPT ![s] = "done"]
             /\ UNCHANGED active
    /\ UNCHANGED << Config, wildcard, hasMaxFlow, tickPending,
                    started, strayPoll, query, crawler, pauseLog, startPC, paused, Done, Output, outputClosed,
                    exitBy, idleTick, heldAtExit, sendOnClosed, MaxFlow,
                    autoReleases, trustedNameFilter, otherNameFilter, st, req,
                    acquired, released, stopped, oneShot, inbox, drain >>

\* The call of NewNameEvent a source makes next, once the one before returned.
NextCall(c) ==
    /\ srcPC[c[1]] = "emit"
    /\ st[c] = "none"
    /\ \A k \in 1 .. (c[2] - 1) : st[<<c[1], k>>] \notin {"none", "acquiring"}

\* The page holds no further name: startRootDomains returns.
FinishQuery(s) ==
    /\ srcPC[s] = "emit"
    /\ \A k \in 1 .. MaxEmit : st[<<s, k>>] \notin {"acquiring"}
    /\ srcPC' = [srcPC EXCEPT ![s] = "done"]
    /\ UNCHANGED << Config, wildcard, hasMaxFlow, tickPending,
                    started, strayPoll, query, crawler, pauseLog, startPC, paused, Done, Output, outputClosed,
                    exitBy, idleTick, heldAtExit, sendOnClosed, MaxFlow,
                    autoReleases, trustedNameFilter, otherNameFilter, st, req,
                    acquired, released, active, stopped, oneShot, inbox, drain >>

\* -------------------------------------------------------------- NewNameEvent
\* Mutant: only the nil request is turned away.
Malformed_NilOnly(r) == r.IsNil

\* req == nil || req.Name == "" || req.Domain == ""
Malformed(r) == r.IsNil \/ r.Name = <<>> \/ r.Domain = <<>>

\* req.Name and req.Domain as NewNameEvent rewrites them.
Normalized(r) ==
    [r EXCEPT !.Name = ToLower(RemoveAsteriskLabel(r.Name)),
              !.Domain = ToLower(r.Domain)]

\* StringFilter.Duplicate: reports whether the name was seen, and records it.
Duplicate(filter, name) == name \in filter
Inserted(filter, name) == filter \cup {name}

\* Mutant: the verdict of the filter is ignored.
DuplicateName_Never(tt, name) == FALSE

\* The filter NewNameEvent consults for a tag, and its verdict.
DuplicateName(tt, name) ==
    IF ~tt THEN Duplicate(otherNameFilter, name)
    ELSE Duplicate(trustedNameFilter, name)

\* Mutant: one filter for both partitions.
FiltersAfter_Shared(tt, name) ==
    << Inserted(trustedNameFilter, name), Inserted(otherNameFilter, name) >>

\* The two filters after NewNameEvent has consulted one of them.
FiltersAfter(tt, name) ==
    IF ~tt THEN << trustedNameFilter, Inserted(otherNameFilter, name) >>
    ELSE << Inserted(trustedNameFilter, name), otherNameFilter >>

\* Mutant: no request takes a permit.
NeedsPermit_Never(tag) == FALSE

\* Mutant: only the requests with an untrusted tag take a permit.
NeedsPermit_UntrustedOnly(tag) == ~Config.Passive /\ ~TrustedTag(tag)

\* if !e.Config.Passive { e.MaxFlow.Acquire(1) }
NeedsPermit(tag) == ~Config.Passive

\* NewNameEvent up to the flow limiter.
NewNameEvent(c, r) ==
    /\ NextCall(c)
    /\ IF Malformed(r)
       THEN /\ st' = [st EXCEPT ![c] = "rejected"]
            /\ UNCHANGED << req, trustedNameFilter, otherNameFilter >>
       ELSE LET n == Normalized(r)
                tt == TrustedTag(Tag(c))
            IN  /\ req' = [req EXCEPT ![c] = n]
                /\ trustedNameFilter' = FiltersAfter(tt, n.Name)[1]
                /\ otherNameFilter' = FiltersAfter(tt, n.Name)[2]
                /\ st' = [st EXCEPT ![c] =
                            IF DuplicateName(tt, n.Name) THEN "dup"
                            ELSE IF NeedsPermit(Tag(c)) THEN "acquiring"
                            ELSE "nsSend"]
    /\ UNCHANGED << Config, wildcard, hasMaxFlow, tickPending,
                    started, strayPoll, query, crawler, pauseLog, startPC, paused, Done, Output, outputClosed,
                    exitBy, idleTick, heldAtExit, sendOnClosed, MaxFlow,
                    autoReleases, srcPC, acquired, released, active, stopped,
                    oneShot, inbox, drain >>

\* e.MaxFlow.Acquire(1) returns; go e.nameService.SendRequest(req)
Acquire(c) ==
    /\ st[c] = "acquiring"
    /\ MaxFlow > 0
    /\ MaxFlow' = MaxFlow - 1
    /\ acquired' = [acquired EXCEPT ![c] = TRUE]
    /\ st' = [st EXCEPT ![c] = "nsSend"]
    /\ UNCHANGED << Config, wildcard, hasMaxFlow, tickPending,
                    started, strayPoll, query, crawler, pauseLog, startPC, paused, Done, Output, outputClosed,
                    exitBy, idleTick, heldAtExit, sendOnClosed, autoReleases,
                    trustedNameFilter, otherNameFilter, srcPC, req, released,
                    active, stopped, oneShot, inbox, drain >>

\* The flow limiter returns a permit by itself once per release interval.
AutoRelease ==
    /\ hasMaxFlow
    /\ MaxFlow < Capacity
    /\ autoReleases < MaxAuto
    /\ MaxFlow' = MaxFlow + 1
    /\ autoReleases' = autoReleases + 1
    /\ UNCHANGED << Config, wildcard, hasMaxFlow, tickPending,
                    started, strayPoll, query, crawler, pauseLog, startPC, paused, Done, Output, outputClosed,
                    exitBy, idleTick, heldAtExit, sendOnClosed, trustedNameFilter,
                    otherNameFilter, srcPC, st, req, acquired, released, active,
                    stopped, oneShot, inbox, drain >>


\* --------------------------------------------------------------- NameService
\* The one-shot task of NewNameEvent runs: SendRequest queues the request.
NameSendRequest(c) ==
    /\ st[c] = "nsSend"
    /\ st' = [st EXCEPT ![c] = "nsQueue"]
    /\ UNCHANGED << Config, wildcard, hasMaxFlow, tickPending,
                    started, strayPoll, query, crawler, pauseLog, startPC, paused, Done, Output, outputClosed,
                    exitBy, idleTick, heldAtExit, sendOnClosed, MaxFlow,
                    autoReleases, trustedNameFilter, otherNameFilter, srcPC, req,
                    acquired, released, active, stopped, oneShot, inbox, drain >>

\* ----------------------------------------------------------- ResolveNameEvent
\* e.dnsService.GetWildcardType(req)
GetWildcardType(r) == wildcard

\* Mutant: the dynamic wildcard drops the trusted tags too.
ResolveDrops_AnyTag(r, tag) ==
    \/ Blacklisted(r.Name)
    \/ GetWildcardType(r) = WildcardTypeDynamic

\* Mutant: the blacklist is not consulted.
ResolveDrops_NoBlacklist(r, tag) ==
    ~TrustedTag(tag) /\ GetWildcardType(r) = WildcardTypeDynamic

\* The request is dropped instead of being sent to the DNSService.
ResolveDrops(r, tag) ==
    \/ Blacklisted(r.Name)
    \/ (~TrustedTag(tag) /\ GetWildcardType(r) = WildcardTypeDynamic)

\* Mutant: the early returns forget the permit.
ReleaseOnDrop_Never(tag) == FALSE

\* if !e.Config.Passive { e.MaxFlow.Release(1) } of the two early returns.
ReleaseOnDrop(tag) == ~Config.Passive

\* The permit of call c is released.
Release(c) ==
    /\ MaxFlow' = Released(MaxFlow)
    /\ released' = [released EXCEPT ![c] = released[c] + 1]

ResolveNameEvent(c) ==
    LET r == req[c] IN
    IF Malformed(r)
    THEN /\ st' = [st EXCEPT ![c] = "dropMalformed"]
         /\ IF ReleaseOnDrop(Tag(c)) THEN Release(c)
            ELSE UNCHANGED << MaxFlow, released >>
    ELSE IF ResolveDrops(r, Tag(c))
    THEN /\ st' = [st EXCEPT ![c] =
                    IF Blacklisted(r.Name) THEN "dropBlacklist" ELSE "dropDynamic"]
         /\ IF ReleaseOnDrop(Tag(c)) THEN Release(c)
            ELSE UNCHANGED << MaxFlow, released >>
    ELSE /\ st' = [st EXCEPT ![c] = "dnsSend"]
         /\ UNCHANGED << MaxFlow, released >>

\* The NameService takes a queued request and hands it to ResolveNameEvent.
NamePerform(c) ==
    /\ st[c] = "nsQueue"
    /\ Running("NameService")
    /\ active' = SetActive(active, "NameService")
    /\ ResolveNameEvent(c)
    /\ UNCHANGED << Config, wildcard, hasMaxFlow, tickPending,
                    started, strayPoll, query, crawler, pauseLog, startPC, paused, Done, Output, outputClosed,
                    exitBy, idleTick, heldAtExit, sendOnClosed, autoReleases,
                    trustedNameFilter, otherNameFilter, srcPC, req, acquired,
                    stopped, oneShot, inbox, drain >>

\* ---------------------------------------------------------------- DNSService
\* The one-shot task of ResolveNameEvent runs: SendRequest queues the request.
DNSSendRequest(c) ==
    /\ st[c] = "dnsSend"
    /\ st' = [st EXCEPT ![c] = "dnsQueue"]
    /\ UNCHANGED << Config, wildcard, hasMaxFlow, tickPending,
                    started, strayPoll, query, crawler, pauseLog, startPC, paused, Done, Output, outputClosed,
                    exitBy, idleTick, heldAtExit, sendOnClosed, MaxFlow,
                    autoReleases, trustedNameFilter, otherNameFilter, srcPC, req,
                    acquired, released, active, stopped, oneShot, inbox, drain >>

\* e.dnsService.MatchesWildcard(req): the answers of the request are those of
\* the zone's wildcard.
MatchesWildcard(r) == wildcard # WildcardTypeNone /\ r.Match

\* The request is dropped instead of being handed to NameService.Resolved.
ResolvedDrops(r, tag) == ~TrustedTag(tag) /\ MatchesWildcard(r)

\* ResolvedNameEvent for the request of call c, whose answers are in r.
ResolvedNameEvent(c, r) ==
    st' = [st EXCEPT ![c] = IF ResolvedDrops(r, Tag(c)) THEN "dropStatic"
                            ELSE "nsResolved"]

\* The DNSService resolves a queued request: the resolution fails, or it
\* yields answers and the request goes to ResolvedNameEvent.  Either way the
\* permit of the request is released.
DNSPerform(c) ==
    /\ st[c] = "dnsQueue"
    /\ ~Config.Passive
    /\ Running("DNSService")
    /\ active' = SetActive(active, "DNSService")
    /\ Release(c)
    /\ \E ok \in BOOLEAN, m \in BOOLEAN :
        /\ m => (ok /\ wildcard # WildcardTypeNone)
        /\ IF ok
           THEN LET r == [req[c] EXCEPT !.Match = m]
                IN  /\ req' = [req EXCEPT ![c] = r]
                    /\ ResolvedNameEvent(c, r)
           ELSE /\ st' = [st EXCEPT ![c] = "failed"]
                /\ UNCHANGED req
    /\ UNCHANGED << Config, wildcard, hasMaxFlow, tickPending,
                    started, strayPoll, query, crawler, pauseLog, startPC, paused, Done, Output, outputClosed,
                    exitBy, idleTick, heldAtExit, sendOnClosed, autoReleases,
                    trustedNameFilter, otherNameFilter, srcPC, acquired, stopped,
                    oneShot, inbox, drain >>

\* A passive run bypasses the resolution: the name counts as validated.
DNSBypass(c) ==
    /\ st[c] = "dnsQueue"
    /\ Config.Passive
    /\ Running("NameService")
    /\ st' = [st EXCEPT ![c] = "nsResolved"]
    /\ UNCHANGED << Config, wildcard, hasMaxFlow, tickPending,
                    started, strayPoll, query, crawler, pauseLog, startPC, paused, Done, Output, outputClosed,
                    exitBy, idleTick, heldAtExit, sendOnClosed, MaxFlow,
                    autoReleases, trustedNameFilter, otherNameFilter, srcPC, req,
                    acquired, released, active, stopped, oneShot, inbox, drain >>

\* ------------------------------------------------- Resolved and the fan-out
\* The services CheckedNameEvent spawns a SendRequest task for.
CheckedTargets ==
    {"DataManagerService"}
    \cup (IF Config.Alterations THEN {"AlterationService"} ELSE {})
    \cup Sources

CheckedNameEvent ==
    oneShot' = [s \in AllServices |->
                  IF s \in CheckedTargets THEN oneShot[s] + 1 ELSE oneShot[s]]

\* OutputEvent: e.Output <- out.  The send waits while the buffer is full; on
\* the closed channel it panics.
OutputEvent(c) ==
    IF outputClosed
    THEN /\ sendOnClosed' = TRUE
         /\ UNCHANGED Output
    ELSE /\ Len(Output) < OutputCap
         /\ Output' = Append(Output, c)
         /\ UNCHANGED sendOnClosed

\* The task of ResolvedNameEvent runs NameService.Resolved: the discovery is
\* emitted, then the validated name fans out.
NameResolved(c) ==
    /\ st[c] = "nsResolved"
    /\ active' = SetActive(active, "NameService")
    /\ OutputEvent(c)
    /\ IF outputClosed
       THEN /\ st' = [st EXCEPT ![c] = "panic"]
            /\ UNCHANGED oneShot
       ELSE /\ st' = [st EXCEPT ![c] = "emitted"]
            /\ CheckedNameEvent
    /\ UNCHANGED << Config, wildcard, hasMaxFlow, tickPending,
                    started, strayPoll, query, crawler, pauseLog, startPC, paused, Done, outputClosed, exitBy,
                    idleTick, heldAtExit, MaxFlow, autoReleases, trustedNameFilter,
                    otherNameFilter, srcPC, req, acquired, released, stopped,
                    inbox, drain >>

\* The caller takes a discovery from Output.
ReceiveOutput ==
    /\ Output # <<>>
    /\ Output' = Tail(Output)
    /\ UNCHANGED << Config, wildcard, hasMaxFlow, tickPending,
                    started, strayPoll, query, crawler, pauseLog, startPC, paused, Done, outputClosed, exitBy,
                    idleTick, heldAtExit, sendOnClosed, MaxFlow, autoReleases,
                    trustedNameFilter, otherNameFilter, srcPC, st, req, acquired,
                    released, active, stopped, oneShot, inbox, drain >>

\* A one-shot task of CheckedNameEvent runs: SendRequest queues the request.
SendRequest(s) ==
    /\ oneShot[s] > 0
    /\ oneShot' = [oneShot EXCEPT ![s] = oneShot[s] - 1]
    /\ inbox' = [inbox EXCEPT ![s] = inbox[s] + 1]
    /\ UNCHANGED << Config, wildcard, hasMaxFlow, tickPending,
                    started, strayPoll, query, crawler, pauseLog, startPC, paused, Done, Output, outputClosed,
                    exitBy, idleTick, heldAtExit, sendOnClosed, MaxFlow,
                    autoReleases, trustedNameFilter, otherNameFilter, srcPC, st,
                    req, acquired, released, active, stopped, drain >>

\* processRequests of a data source: case <-p.RequestChan()
ProcessRequest(s) ==
    /\ s \in Sources
    /\ drain[s] = "run"
    /\ inbox[s] > 0
    /\ inbox' = [inbox EXCEPT ![s] = inbox[s] - 1]
    /\ active' = SetActive(active, s)
    /\ UNCHANGED << Config, wildcard, hasMaxFlow, tickPending,
                    started, strayPoll, query, crawler, pauseLog, startPC, paused, Done, Output, outputClosed,
                    exitBy, idleTick, heldAtExit, sendOnClosed, MaxFlow,
                    autoReleases, trustedNameFilter, otherNameFilter, srcPC, st,
                    req, acquired, released, stopped, oneShot, drain >>

\* The states of processRequests in which its select can take case <-p.Quit().
DrainQuits(s) == drain[s] = "run"

\* processRequests of a data source: case <-p.Quit()
ProcessQuit(s) ==
    /\ s \in Sources
    /\ DrainQuits(s)
    /\ s \in stopped
    /\ drain' = [drain EXCEPT ![s] = "exited"]
    /\ UNCHANGED << Config, wildcard, hasMaxFlow, tickPending,
                    started, strayPoll, query, crawler, pauseLog, startPC, paused, Done, Output, outputClosed,
                    exitBy, idleTick, heldAtExit, sendOnClosed, MaxFlow,
                    autoReleases, trustedNameFilter, otherNameFilter, srcPC, st,
                    req, acquired, released, active, stopped, oneShot, inbox >>

\* processRequests of a data source: case <-p.PauseChan().  The services get
\* the pause signal while the enumeration is paused; the task then waits in
\* <-p.ResumeChan() and takes nothing else.
DrainPause(s) ==
    /\ s \in Sources
    /\ drain[s] = "run"
    /\ paused
    /\ drain' = [drain EXCEPT ![s] = "waitResume"]
    /\ UNCHANGED << Config, wildcard, hasMaxFlow, tickPending, started, strayPoll,
                    query, crawler, pauseLog, startPC, paused, Done, Output, outputClosed,
                    exitBy, idleTick, heldAtExit, sendOnClosed, MaxFlow,
                    autoReleases, trustedNameFilter, otherNameFilter, srcPC, st,
                    req, acquired, released, active, stopped, oneShot, inbox >>

\* processRequests of a data source: <-p.ResumeChan() returns once the
\* enumeration is resumed.
DrainResume(s) ==
    /\ s \in Sources
    /\ drain[s] = "waitResume"
    /\ ~paused
    /\ drain' = [drain EXCEPT ![s] = "run"]
    /\ UNCHANGED << Config, wildcard, hasMaxFlow, tickPending, started, strayPoll,
                    query, crawler, pauseLog, startPC, paused, Done, Output, outputClosed,
                    exitBy, idleTick, heldAtExit, sendOnClosed, MaxFlow,
                    autoReleases, trustedNameFilter, otherNameFilter, srcPC, st,
                    req, acquired, released, active, stopped, oneShot, inbox >>

\* The DataManager and the AlterationService take a validated name.
ServiceConsume(s) ==
    /\ s \in {"DataManagerService", "AlterationService"}
    /\ Running(s)
    /\ inbox[s] > 0
    /\ inbox' = [inbox EXCEPT ![s] = inbox[s] - 1]
    /\ active' = SetActive(active, s)
    /\ UNCHANGED << Config, wildcard, hasMaxFlow, tickPending,
                    started, strayPoll, query, crawler, pauseLog, startPC, paused, Done, Output, outputClosed,
                    exitBy, idleTick, heldAtExit, sendOnClosed, MaxFlow,
                    autoReleases, trustedNameFilter, otherNameFilter, srcPC, st,
                    req, acquired, released, stopped, oneShot, drain >>

\* ------------------------------------------------------------ specification
\* The whole engine.
NextEngine ==
    /\ ~sendOnClosed
    /\ \/ StartBegin
       \/ CloseDone
       \/ DoneBreak
       \/ (Pause /\ UNCHANGED pauseLog)
       \/ (Resume /\ UNCHANGED pauseLog)
       \/ Tick
       \/ CloseOutput
       \/ \E s \in Sources : FetchPage(s)
       \/ \E s \in Sources : FinishQuery(s)
       \/ \E c \in Calls, r \in RawRequests : NewNameEvent(c, r)
       \/ \E c \in Calls : Acquire(c)
       \/ AutoRelease
       \/ \E c \in Calls : NameSendRequest(c)
       \/ \E c \in Calls : NamePerform(c)
       \/ \E c \in Calls : DNSSendRequest(c)
       \/ \E c \in Calls : DNSPerform(c)
       \/ \E c \in Calls : DNSBypass(c)
       \/ \E c \in Calls : NameResolved(c)
       \/ ReceiveOutput
       \/ \E s \in AllServices : SendRequest(s)
       \/ \E s \in Sources : ProcessRequest(s)
       \/ \E s \in Sources : ProcessQuit(s)
       \/ \E s \in AllServices : ServiceConsume(s)

SpecEngine == Init /\ [][NextEngine]_vars

\* The pipeline of a started enumeration whose lifecycle loop keeps running:
\* every source, every input, every step a request takes up to Output.  The
\* steps of the loop and the consumers of the fan-out only take steps away
\* from the pipeline (a stopped service takes no request), so what holds of
\* the requests here holds of them in the whole engine.
Next ==
    /\ ~sendOnClosed
    /\ \/ StartBegin
       \/ \E s \in Sources : FetchPage(s)
       \/ \E s \in Sources : FinishQuery(s)
       \/ \E c \in Calls, r \in RawRequests : NewNameEvent(c, r)
       \/ \E c \in Calls : Acquire(c)
       \/ AutoRelease
       \/ \E c \in Calls : NameSendRequest(c)
       \/ \E c \in Calls : NamePerform(c)
       \/ \E c \in Calls : DNSSendRequest(c)
       \/ \E c \in Calls : DNSPerform(c)
       \/ \E c \in Calls : DNSBypass(c)
       \/ \E c \in Calls : NameResolved(c)
       \/ ReceiveOutput

Spec == Init /\ [][Next]_vars

\* The lifecycle of the engine around one discovery: the whole of Start, the
\* caller, the activity flags and the fan-out, with one source yielding one
\* well-formed name in a zone without wildcard, alterations switched off.
FirstCalls == { <<DataSources[1], 1>> }
PlainRequests ==
    { r \in RawRequests : ~r.IsNil /\ r.Name = <<"a", "d">> /\ r.Domain = <<"d">> }

InitLife ==
    /\ wildcard = WildcardTypeNone
    /\ Config \in { cfg \in Configs : ~cfg.Alterations }
    /\ InitState

NextLife ==
    /\ ~sendOnClosed
    /\ \/ StartBegin
       \/ CloseDone
       \/ DoneBreak
       \/ (Pause /\ UNCHANGED pauseLog)
       \/ (Resume /\ UNCHANGED pauseLog)
       \/ Tick
       \/ CloseOutput
       \/ \E s \in Sources : FetchPage(s)
       \/ \E s \in Sources : FinishQuery(s)
       \/ \E c \in FirstCalls, r \in PlainRequests : NewNameEvent(c, r)
       \/ \E c \in Calls : Acquire(c)
       \/ AutoRelease
       \/ \E c \in Calls : NameSendRequest(c)
       \/ \E c \in Calls : NamePerform(c)
       \/ \E c \in Calls : DNSSendRequest(c)
       \/ \E c \in Calls : DNSPerform(c)
       \/ \E c \in Calls : DNSBypass(c)
       \/ \E c \in Calls : NameResolved(c)
       \/ ReceiveOutput
       \/ \E s \in AllServices : SendRequest(s)
       \/ \E s \in Sources : ProcessRequest(s)
       \/ \E s \in Sources : ProcessQuit(s)
       \/ \E s \in AllServices : ServiceConsume(s)

\* The goroutine of Start is scheduled: a select with a ready case takes one,
\* and the sleep before close(e.Output) ends.
SpecLife ==
    /\ InitLife
    /\ [][NextLife]_vars
    /\ WF_vars(DoneBreak)
    /\ WF_vars(CloseOutput)

\* The request of call c has come to an end of the pipeline.
Ended(c) ==
    st[c] \in {"dropMalformed", "dropBlacklist", "dropDynamic", "dropStatic",
               "failed", "emitted", "panic"}

\* Pause and Resume as the caller's run sees them: the log keeps the requests
\* that were on their way when the loop took the Pause, and whether a Resume
\* followed it.
PauseLogged ==
    /\ Pause
    /\ pauseLog' = IF paused THEN pauseLog
                   ELSE [inFlight |-> { c \in Calls : st[c] # "none" /\ ~Ended(c) },
                         resumed |-> FALSE]

ResumeLogged ==
    /\ Resume
    /\ pauseLog' = [pauseLog EXCEPT !.resumed = (pauseLog.resumed \/ paused)]

\* An enumeration that is paused and resumed while one discovery is on its
\* way: Start, the caller, the pipeline of one name of one source, the
\* fan-out to the data sources and their processRequests tasks, which wait
\* for the resume once they got the pause.
InitPause ==
    /\ wildcard = WildcardTypeNone
    /\ Config \in { cfg \in Configs : ~cfg.Alterations /\ ~cfg.Passive }
    /\ InitState

NextPause ==
    /\ ~sendOnClosed
    /\ \/ StartBegin
       \/ CloseDone
       \/ DoneBreak
       \/ PauseLogged
       \/ ResumeLogged
       \/ Tick
       \/ CloseOutput
       \/ \E s \in Sources : FetchPage(s)
       \/ \E s \in Sources : FinishQuery(s)
       \/ \E c \in FirstCalls, r \in PlainRequests : NewNameEvent(c, r)
       \/ \E c \in Calls : Acquire(c)
       \/ \E c \in Calls : NameSendRequest(c)
       \/ \E c \in Calls : NamePerform(c)
       \/ \E c \in Calls : DNSSendRequest(c)
       \/ \E c \in Calls : DNSPerform(c)
       \/ \E c \in Calls : NameResolved(c)
       \/ ReceiveOutput
       \/ \E s \in Sources : SendRequest(s)
       \/ \E s \in Sources : ProcessRequest(s)
       \/ \E s \in Sources : ProcessQuit(s)
       \/ \E s \in Sources : DrainPause(s)
       \/ \E s \in Sources : DrainResume(s)

\* Start is scheduled as in SpecLife, and so is every processRequests task:
\* a select of the task with a ready case takes one.
SpecPause ==
    /\ InitPause
    /\ [][NextPause]_vars
    /\ WF_vars(DoneBreak)
    /\ WF_vars(CloseOutput)
    /\ \A s \in Sources : WF_vars(ProcessQuit(s))
    /\ \A s \in Sources : WF_vars(DrainResume(s))
    /\ \A s \in Sources : WF_vars(ProcessRequest(s))

\* Start under every combination of the settings it checks, with every
\* outcome of the services' Start: the checks, the selection of the services,
\* the loop, and the pipeline of one name of the first source.
InitStart ==
    /\ wildcard = WildcardTypeNone
    /\ Config \in { cfg \in AllConfigs : ~cfg.Alterations /\ cfg.HasDomains }
    /\ InitState

NextStart ==
    /\ ~sendOnClosed
    /\ \/ StartBegin
       \/ CloseDone
       \/ DoneBreak
       \/ (Pause /\ UNCHANGED pauseLog)
       \/ (Resume /\ UNCHANGED pauseLog)
       \/ Tick
       \/ CloseOutput
       \/ \E s \in Sources : FetchPage(s)
       \/ \E s \in Sources : FinishQuery(s)
       \/ \E c \in FirstCalls, r \in PlainRequests : NewNameEvent(c, r)
       \/ \E c \in Calls : Acquire(c)
       \/ \E c \in Calls : NameSendRequest(c)
       \/ \E c \in Calls : NamePerform(c)
       \/ \E c \in Calls : DNSSendRequest(c)
       \/ \E c \in Calls : DNSPerform(c)
       \/ \E c \in Calls : DNSBypass(c)
       \/ \E c \in Calls : NameResolved(c)
       \/ ReceiveOutput
       \/ \E s \in Sources : ProcessQuit(s)

SpecStart == InitStart /\ [][NextStart]_vars

\* Start with any configuration CheckConfig accepts, the domain list empty or
\* not, in a run the caller does not pause.
InitDomains ==
    /\ wildcard = WildcardTypeNone
    /\ Config \in { cfg \in AllConfigs : CheckConfig(cfg) = Nil /\ ~cfg.Alterations }
    /\ InitState

NextDomains ==
    /\ ~sendOnClosed
    /\ \/ StartBegin
       \/ CloseDone
       \/ DoneBreak
       \/ Tick
       \/ CloseOutput
       \/ \E s \in Sources : FetchPage(s)
       \/ \E s \in Sources : FinishQuery(s)
       \/ \E c \in FirstCalls, r \in PlainRequests : NewNameEvent(c, r)
       \/ \E c \in Calls : Acquire(c)
       \/ \E c \in Calls : NameSendRequest(c)
       \/ \E c \in Calls : NamePerform(c)
       \/ \E c \in Calls : DNSSendRequest(c)
       \/ \E c \in Calls : DNSPerform(c)
       \/ \E c \in Calls : DNSBypass(c)
       \/ \E c \in Calls : NameResolved(c)
       \/ ReceiveOutput
       \/ \E s \in Sources : ProcessQuit(s)

\* The goroutine of Start is scheduled and its running ticker fires.
SpecDomains ==
    /\ InitDomains
    /\ [][NextDomains]_vars
    /\ WF_vars(Tick)
    /\ WF_vars(DoneBreak)
    /\ WF_vars(CloseOutput)

\* ---------------------------------------------------- names of the sources
\* The labels a page can hold besides letters: "" stands before a leading or
\* doubled dot, "2f" is the rest of an URL escape, " a" starts with a space.
LabelLen(l) ==
    CASE l = "" -> 0 [] l = "2f" -> 2 [] l = "2fa" -> 3 [] l = " a" -> 2 [] OTHER -> 1

\* The length of the string a sequence of labels stands for.
RECURSIVE StrLen(_)
StrLen(n) ==
    IF n = <<>> THEN 0
    ELSE IF Len(n) = 1 THEN LabelLen(n[1])
    ELSE LabelLen(n[1]) + 1 + StrLen(Tail(n))

\* nameStripRE: ^((20)|(25)|(2f)|(3d)|(40))+ taken from the front of the string.
StripNoise(n) ==
    IF n = <<>> THEN n
    ELSE <<(CASE n[1] = "2fa" -> "a" [] n[1] = "2f" -> "" [] OTHER -> n[1])>> \o Tail(n)

\* strings.TrimSpace: the space in front of the string goes.
TrimSpace(n) ==
    IF n = <<>> THEN n
    ELSE <<(IF n[1] = " a" THEN "a" ELSE n[1])>> \o Tail(n)

\* cleanName: the noise in front, lower case and spaces, then one leading dot.
cleanName(name) ==
    LET n == TrimSpace(ToLower(StripNoise(name)))
    IN  IF StrLen(n) > 1 /\ n[1] = "" THEN Tail(n) ELSE n

\* The strings a page can hold where a name is expected.
PageNames ==
    { <<"a", "d">>, <<"A", "d">>, <<"2fa", "d">>, << " a", "d">>, <<"*", "a", "d">>,
      <<"", "a", "d">>, <<"", "", "a", "d">>, <<"2f", "a", "d">>, <<"a", "e">> }

\* The configured root domains.
Domains == { <<"d">>, <<"D">> }

\* Config.DomainRegex(domain) matches the string: labels of letters and
\* digits, each followed by a dot, then the domain.
MatchesDomainRegex(n, domain) ==
    /\ Len(n) > Len(domain)
    /\ IsSuffix(domain, n)
    /\ \A i \in 1 .. (Len(n) - Len(domain)) : n[i] \in {"a", "A", "b", "2fa"}

\* The strings executeQuery of a source takes from a page for a domain:
\* PTRArchive the matches of the domain's regular expression, Crtsh the
\* name_value of every decoded line.
SourceNames(s, domain) ==
    IF s = "Crtsh" THEN PageNames
    ELSE { n \in PageNames : MatchesDomainRegex(n, domain) }

\* The request executeQuery builds for a string of the page.
SourceRequest(raw, domain) ==
    [IsNil |-> FALSE, Name |-> cleanName(raw), Domain |-> domain, Match |-> FALSE]

\* The first call of NewNameEvent of each source.
OneCallEach == { c \in Calls : c[2] = 1 }

\* The names of the sources on their way to Output: a passive enumeration in
\* which each source hands one string of its page, cleaned, to NewNameEvent.
InitNames ==
    /\ wildcard = WildcardTypeNone
    /\ Config \in { cfg \in Configs : cfg.Passive /\ ~cfg.Alterations }
    /\ InitState

NextNames ==
    /\ ~sendOnClosed
    /\ \/ StartBegin
       \/ \E s \in Sources : FetchPage(s)
       \/ \E s \in Sources : FinishQuery(s)
       \/ \E c \in OneCallEach, domain \in Domains :
             \E raw \in SourceNames(c[1], domain) :
                NewNameEvent(c, SourceRequest(raw, domain))
       \/ \E c \in Calls : NameSendRequest(c)
       \/ \E c \in Calls : NamePerform(c)
       \/ \E c \in Calls : DNSSendRequest(c)
       \/ \E c \in Calls : DNSBypass(c)
       \/ \E c \in Calls : NameResolved(c)
       \/ ReceiveOutput

SpecNames == InitNames /\ [][NextNames]_vars

\* Runs nobody interferes with: a passive enumeration the caller neither
\* pauses nor ends, whose source hands the name of its page to NewNameEvent.
\* What differs between two runs is the order of the steps alone.
InitRuns ==
    /\ wildcard = WildcardTypeNone
    /\ Config \in { cfg \in Configs : cfg.Passive /\ ~cfg.Alterations }
    /\ InitState

NextRuns ==
    /\ ~sendOnClosed
    /\ \/ StartBegin
       \/ Tick
       \/ CloseOutput
       \/ \E s \in Sources : FetchPage(s)
       \/ \E s \in Sources : FinishQuery(s)
       \/ \E c \in OneCallEach, r \in PlainRequests : NewNameEvent(c, r)
       \/ \E c \in Calls : NameSendRequest(c)
       \/ \E c \in Calls : NamePerform(c)
       \/ \E c \in Calls : DNSSendRequest(c)
       \/ \E c \in Calls : DNSBypass(c)
       \/ \E c \in Calls : NameResolved(c)
       \/ ReceiveOutput
       \/ \E s \in Sources : ProcessQuit(s)

SpecRuns == InitRuns /\ [][NextRuns]_vars

\* ------------------------------------------------- the queries of a source
\* What a page holds.  For Crtsh, the JSON values one after the other: "name"
\* is an object with a name_value, "type" a well-formed value that does not
\* fit crtData, "syntax" a text that is not JSON.  For DNSDumpster, "token" is
\* the hidden input with the CSRF token and "html" anything else.
PageItems(s) ==
    IF s = "Crtsh" THEN {"name", "type", "syntax"} ELSE {"token", "html"}

RECURSIVE SeqsUpTo(_, _)
SeqsUpTo(S, n) ==
    IF n = 0 THEN { <<>> }
    ELSE LET shorter == SeqsUpTo(S, n - 1)
         IN  shorter \cup { Append(q, x) : q \in shorter, x \in S }

Pages(s) == SeqsUpTo(PageItems(s), PageLen)

\* Not one of the words below is the token, so "" is returned.
getCSRFToken(page) ==
    IF \E i \in DOMAIN page : page[i] = "token" THEN "token" ELSE ""

\* The frame of a step of a query.
QueryFrame ==
    UNCHANGED << Config, wildcard, startPC, paused, Done, Output, outputClosed, exitBy,
                 idleTick, heldAtExit, sendOnClosed, MaxFlow, autoReleases,
                 trustedNameFilter, otherNameFilter, srcPC, st, req, acquired,
                 released, active, stopped, oneShot, inbox, drain, hasMaxFlow,
                 tickPending, started, strayPoll, crawler, pauseLog >>

\* executeQuery returns: startRootDomains takes the next domain, or returns.
Returned(q) ==
    IF q.domain < NumDomains
    THEN [q EXCEPT !.pc = "fetch", !.domain = q.domain + 1, !.page = <<>>, !.pos = 1]
    ELSE [q EXCEPT !.pc = "done", !.page = <<>>, !.pos = 1]

\* Decode failed with an error that is not io.EOF: the line is logged and the
\* loop goes on with the next Decode.  A value of the wrong type has been
\* read, so the decoder stands behind it; a syntax error is kept by the
\* decoder, which hands it out again on every later call.
DecodeError(q) ==
    [q EXCEPT !.logs = (q.logs + 1) % LogWrap,
              !.pos = IF q.page[q.pos] = "type" THEN q.pos + 1 ELSE q.pos]

\* OnStart: go startRootDomains().
QueryStart(s) ==
    /\ query[s].pc = "off"
    /\ query' = [query EXCEPT ![s].pc = "fetch"]
    /\ QueryFrame

\* executeQuery: utils.RequestWebPage; an error is logged and ends the query.
QueryFetch(s) ==
    /\ query[s].pc = "fetch"
    /\ \E ok \in BOOLEAN, page \in Pages(s) :
        query' = [query EXCEPT ![s] =
                    IF ok
                    THEN [@ EXCEPT !.pc = IF s = "Crtsh" THEN "decode" ELSE "token",
                                   !.page = page, !.pos = 1]
                    ELSE Returned([@ EXCEPT !.logs = (@ + 1) % LogWrap])]
    /\ QueryFrame

\* Crtsh.executeQuery: one round of the loop around lines.Decode(&line).
CrtshDecode ==
    LET q == query["Crtsh"] IN
    /\ q.pc = "decode"
    /\ query' = [query EXCEPT !["Crtsh"] =
                    IF q.pos > Len(q.page) THEN Returned(q)
                    ELSE IF q.page[q.pos] = "name" THEN [q EXCEPT !.pos = q.pos + 1]
                    ELSE DecodeError(q)]
    /\ QueryFrame

\* DNSDumpster.executeQuery: without the token the query is logged and ends.
DumpsterToken ==
    LET q == query["DNSDumpster"] IN
    /\ q.pc = "token"
    /\ query' = [query EXCEPT !["DNSDumpster"] =
                    IF getCSRFToken(q.page) = ""
                    THEN Returned([q EXCEPT !.logs = (q.logs + 1) % LogWrap])
                    ELSE [q EXCEPT !.pc = "post"]]
    /\ QueryFrame

\* DNSDumpster.executeQuery: postForm, then the names of the answer; an
\* error of postForm is logged and ends the query.
DumpsterPost ==
    LET q == query["DNSDumpster"] IN
    /\ q.pc = "post"
    /\ \E ok \in BOOLEAN :
        query' = [query EXCEPT !["DNSDumpster"] =
                    IF ok THEN Returned(q)
                    ELSE Returned([q EXCEPT !.logs = (q.logs + 1) % LogWrap])]
    /\ QueryFrame

QueryStep(s) ==
    \/ QueryStart(s)
    \/ QueryFetch(s)
    \/ s = "Crtsh" /\ CrtshDecode
    \/ s = "DNSDumpster" /\ (DumpsterToken \/ DumpsterPost)

InitQuery ==
    /\ wildcard = WildcardTypeNone
    /\ Config \in { cfg \in Configs : cfg.Passive /\ ~cfg.Alterations }
    /\ InitState

NextQuery ==
    \/ \E s \in QuerySources : QueryStart(s)
    \/ \E s \in QuerySources : QueryFetch(s)
    \/ CrtshDecode
    \/ DumpsterToken
    \/ DumpsterPost

\* The goroutine of startRootDomains is scheduled as long as it can step.
SpecQuery ==
    /\ InitQuery
    /\ [][NextQuery]_vars
    /\ \A s \in QuerySources : WF_vars(QueryStep(s))

\* The producers at the flow limiter: a non-passive enumeration in which the
\* requests go no further than the NameService queue, so that no permit is
\* ever released by a request.
InitFlow ==
    /\ wildcard = WildcardTypeNone
    /\ Config \in { cfg \in Configs : ~cfg.Passive /\ ~cfg.Alterations }
    /\ InitState

NextFlow ==
    \/ StartBegin
    \/ \E s \in Sources : FetchPage(s)
    \/ \E s \in Sources : FinishQuery(s)
    \/ \E c \in OneCallEach, r \in RawRequests : NewNameEvent(c, r)
    \/ \E c \in Calls : Acquire(c)
    \/ AutoRelease
    \/ \E c \in Calls : NameSendRequest(c)

\* The timer of the limiter runs, and a goroutine blocked in Acquire is
\* woken when a permit is there.
SpecFlow ==
    /\ InitFlow
    /\ [][NextFlow]_vars
    /\ WF_vars(AutoRelease)
    /\ \A c \in Calls : WF_vars(Acquire(c))

\* NewNameEvent and the flow limiter, with every input a source can hand in,
\* in passive and non-passive runs; the requests go no further than the
\* NameService queue.
InitPermit ==
    /\ wildcard = WildcardTypeNone
    /\ Config \in { cfg \in Configs : ~cfg.Alterations }
    /\ InitState

NextPermit ==
    \/ StartBegin
    \/ \E s \in Sources : FetchPage(s)
    \/ \E s \in Sources : FinishQuery(s)
    \/ \E c \in Calls, r \in RawRequests : NewNameEvent(c, r)
    \/ \E c \in Calls : Acquire(c)
    \/ AutoRelease
    \/ \E c \in Calls : NameSendRequest(c)

SpecPermit == InitPermit /\ [][NextPermit]_vars

\* ------------------------------------------------------------------- crawl
\* The frame of a step of crawl, of its fetcher or of its response handler.
CrawlFrame ==
    UNCHANGED << Config, wildcard, startPC, paused, Done, Output, outputClosed, exitBy,
                 idleTick, heldAtExit, sendOnClosed, MaxFlow, autoReleases,
                 trustedNameFilter, otherNameFilter, srcPC, st, req, acquired,
                 released, active, stopped, oneShot, inbox, drain, hasMaxFlow,
                 tickPending, started, strayPoll, query, pauseLog >>

\* f.Start() and q.SendStringGet(u) of the seed: an error returns at once,
\* otherwise the timer is set and the loop entered.
CrawlStart ==
    /\ crawler.pc = "off"
    /\ \E ok \in BOOLEAN :
        crawler' = IF ok THEN [crawler EXCEPT !.pc = "loop", !.pending = 1]
                   ELSE [crawler EXCEPT !.pc = "returned"]
    /\ CrawlFrame

\* The fetcher takes a queued command and calls the response handler, which
\* holds filterMutex until it returns: one handler at a time.  The page has
\* up to PageHrefs links that match the domain (none for a page seen before,
\* an error or another content type).
HandlerBegin ==
    /\ crawler.handler = "idle"
    /\ crawler.pending > 0
    /\ ~crawler.cancelled
    /\ \E h \in 0 .. PageHrefs :
        crawler' = [crawler EXCEPT !.pending = @ - 1, !.fetched = @ + 1,
                                   !.hrefs = h,
                                   !.handler = IF h > 0 THEN "name" ELSE "idle"]
    /\ CrawlFrame

\* linksAndNames: names <- sub
HandlerSendName ==
    /\ crawler.handler = "name"
    /\ crawler.names < ChanCap
    /\ crawler' = [crawler EXCEPT !.names = @ + 1, !.handler = "link"]
    /\ CrawlFrame

\* linksAndNames: links <- u.String(), then the next link of the page.
HandlerSendLink ==
    /\ crawler.handler = "link"
    /\ crawler.links < ChanCap
    /\ crawler' = [crawler EXCEPT !.links = @ + 1, !.hrefs = @ - 1,
                                   !.handler = IF crawler.hrefs > 1 THEN "name" ELSE "idle"]
    /\ CrawlFrame

\* case l := <-links: a link seen before is skipped, a new one is queued
\* unless the queue has been cancelled.
LoopLink ==
    /\ crawler.pc = "loop"
    /\ crawler.links > 0
    /\ \E seen \in BOOLEAN :
        crawler' = [crawler EXCEPT
                      !.links = @ - 1,
                      !.pending = IF ~seen /\ ~crawler.cancelled
                                     /\ crawler.pending + crawler.fetched < MaxPages
                                  THEN @ + 1 ELSE @]
    /\ CrawlFrame

\* case n := <-names
LoopName ==
    /\ crawler.pc = "loop"
    /\ crawler.names > 0
    /\ crawler' = [crawler EXCEPT !.names = @ - 1]
    /\ CrawlFrame

\* case <-t.C: go q.Cancel(); the queue drops its pending commands.
LoopTimer ==
    /\ crawler.pc = "loop"
    /\ ~crawler.timer
    /\ crawler' = [crawler EXCEPT !.timer = TRUE, !.cancelled = TRUE, !.pending = 0]
    /\ CrawlFrame

\* The cancelled queue closes its Done channel once the handler at work has
\* returned.
QueueDone ==
    /\ crawler.cancelled
    /\ crawler.handler = "idle"
    /\ ~crawler.qdone
    /\ crawler' = [crawler EXCEPT !.qdone = TRUE]
    /\ CrawlFrame

\* case <-q.Done(): break loop
LoopDone ==
    /\ crawler.pc = "loop"
    /\ crawler.qdone
    /\ crawler' = [crawler EXCEPT !.pc = "returned"]
    /\ CrawlFrame

\* The owning service is stopped: its Quit channel is closed.
ServiceQuit ==
    /\ ~crawler.quit
    /\ crawler' = [crawler EXCEPT !.quit = TRUE]
    /\ CrawlFrame

\* case <-service.Quit(): break loop
LoopQuit ==
    /\ crawler.pc = "loop"
    /\ crawler.quit
    /\ crawler' = [crawler EXCEPT !.pc = "returned"]
    /\ CrawlFrame

InitCrawl ==
    /\ wildcard = WildcardTypeNone
    /\ Config \in { cfg \in Configs : cfg.Passive /\ ~cfg.Alterations }
    /\ InitState

NextCrawl ==
    \/ CrawlStart
    \/ HandlerBegin
    \/ HandlerSendName
    \/ HandlerSendLink
    \/ LoopLink
    \/ LoopName
    \/ LoopTimer
    \/ QueueDone
    \/ LoopDone
    \/ ServiceQuit
    \/ LoopQuit

\* The goroutines of crawl, of the fetcher and of the handler are scheduled,
\* and the timer fires.
SpecCrawl ==
    /\ InitCrawl
    /\ [][NextCrawl]_vars
    /\ WF_vars(HandlerBegin)
    /\ WF_vars(HandlerSendName)
    /\ WF_vars(HandlerSendLink)
    /\ WF_vars(LoopLink \/ LoopName \/ LoopTimer \/ LoopDone \/ LoopQuit)
    /\ WF_vars(QueueDone)

\* ------------------------------------------------------------------ claims
Trusted(c) == TrustedTag(Tag(c))

\* NewNameEvent took the request of call c past the dedup filter.
Accepted(c) == st[c] \notin {"none", "rejected", "dup"}

\* NewNameEvent handed the request of call c to the NameService.
Forwarded(c) == Accepted(c) /\ st[c] # "acquiring"

\* The request of call c has met its disposition: dropped, failed, or
\* emitted by the DNSService as resolved.
Disposed(c) ==
    st[c] \in {"dropMalformed", "dropBlacklist", "dropDynamic", "dropStatic",
               "failed", "nsResolved", "emitted", "panic"}

\* The requests on their way between NewNameEvent and their disposition.
InFlight == { c \in Calls : Forwarded(c) /\ ~Disposed(c) }

\* The request of call c went on to the DNSService.
SentToDNS(c) ==
    st[c] \in {"dnsSend", "dnsQueue", "failed", "dropStatic", "nsResolved",
               "emitted", "panic"}

\* The request of call c was handed to NameService.Resolved.
PassedToResolved(c) == st[c] \in {"nsResolved", "emitted", "panic"}

InOutput(c) == \E i \in DOMAIN Output : Output[i] = c

\* C1: of the requests NewNameEvent forwards to the NameService, no two of
\* the same trust partition carry the same normalized name.
C1_ForwardedOnce ==
    \A c1, c2 \in Calls :
        (c1 # c2 /\ Forwarded(c1) /\ Forwarded(c2) /\ Trusted(c1) = Trusted(c2))
            => req[c1].Name # req[c2].Name

C1_Witness ==
    \E c1, c2 \in Calls :
        /\ c1 # c2 /\ Trusted(c1) = Trusted(c2)
        /\ Forwarded(c1) /\ st[c2] = "dup"
        /\ req[c1].Name = req[c2].Name

\* C2: each dedup filter holds exactly the names of the requests of its own
\* partition, and a request is dropped as a duplicate only when a request of
\* its own partition with the same name was accepted before it.
C2_FiltersIndependent ==
    /\ trustedNameFilter =
        { req[c].Name : c \in { d \in Calls : Trusted(d) /\ (Accepted(d) \/ st[d] = "dup") } }
    /\ otherNameFilter =
        { req[c].Name : c \in { d \in Calls : ~Trusted(d) /\ (Accepted(d) \/ st[d] = "dup") } }
    /\ \A c \in Calls :
        st[c] = "dup" =>
            \E c2 \in Calls :
                /\ c2 # c /\ Trusted(c2) = Trusted(c)
                /\ Accepted(c2) /\ req[c2].Name = req[c].Name

C2_Witness ==
    \E c1, c2 \in Calls :
        /\ ~Trusted(c1) /\ Trusted(c2)
        /\ Forwarded(c1) /\ Forwarded(c2)
        /\ req[c1].Name = req[c2].Name
        /\ req[c1].Name \in otherNameFilter \cap trustedNameFilter

C4_ReleasedOnce ==
    ~Config.Passive =>
        \A c \in Calls :
            /\ (Forwarded(c) /\ Disposed(c)) => (acquired[c] /\ released[c] = 1)
            /\ ~Disposed(c) => released[c] = 0

C4_Witness ==
    /\ ~Config.Passive
    /\ \E c \in Calls : st[c] = "dropBlacklist" /\ released[c] = 1
    /\ \E c \in Calls : st[c] = "dropMalformed" /\ released[c] = 1
    /\ \E c \in Calls : st[c] = "dropStatic" /\ released[c] = 1
    /\ \E c \in Calls : st[c] = "emitted" /\ released[c] = 1

\* C5 as stated: a request with a trusted tag never acquires a permit and
\* never waits for one.
C5_TrustedNeverAcquires ==
    \A c \in Calls : Trusted(c) => (~acquired[c] /\ st[c] # "acquiring")

\* C5 as amended: a request with a trusted tag acquires a permit exactly as
\* any other request does: never in a passive run, and always before it is
\* forwarded in a non-passive run.
C5_TrustedAcquiresUnlessPassive ==
    \A c \in Calls :
        Trusted(c) =>
            /\ Config.Passive => (~acquired[c] /\ st[c] # "acquiring")
            /\ (~Config.Passive /\ Forwarded(c)) => acquired[c]

C5_Witness ==
    \E c \in Calls : Trusted(c) /\ Forwarded(c) /\ acquired[c] /\ MaxFlow = 0

\* C6: no request with a trusted tag is dropped for a wildcard; a request
\* with another tag never reaches the DNSService in a dynamic wildcard zone
\* and never reaches NameService.Resolved with the answers of the wildcard.
C6_WildcardFiltering ==
    \A c \in Calls :
        /\ st[c] \in {"dropDynamic", "dropStatic"} => ~Trusted(c)
        /\ (~Trusted(c) /\ Accepted(c) /\ wildcard = WildcardTypeDynamic)
            => ~SentToDNS(c)
        /\ (~Trusted(c) /\ MatchesWildcard(req[c])) => ~PassedToResolved(c)

C6_Witness ==
    /\ \E c \in Calls : Trusted(c) /\ st[c] = "emitted" /\ MatchesWildcard(req[c])
    /\ \E c \in Calls : ~Trusted(c) /\ st[c] = "dropStatic"

\* C7: a request with a blacklisted name never reaches the DNSService and is
\* never emitted; ResolveNameEvent releases its permit once in a non-passive
\* run and releases nothing in a passive run.
C7_Blacklisted ==
    \A c \in Calls :
        (Accepted(c) /\ Blacklisted(req[c].Name)) =>
            /\ ~SentToDNS(c)
            /\ ~InOutput(c)
            /\ st[c] = "dropBlacklist" => released[c] = (IF Config.Passive THEN 0 ELSE 1)
            /\ Config.Passive => MaxFlow = Capacity

C7_Witness ==
    \E c \in Calls :
        /\ Trusted(c) /\ st[c] = "dropBlacklist" /\ released[c] = 1
        /\ Blacklisted(req[c].Name)


\* C8: Output is closed only after a tick found every started service
\* inactive or after Done was closed; once Start is in its loop and Done is
\* closed, paused or not, Output gets closed; and so it does once a tick
\* found every started service inactive.
C8_OutputClose ==
    /\ [](outputClosed => (idleTick \/ Done))
    /\ [](exitBy = "tick" => idleTick)
    /\ (startPC = "loop" /\ Done) ~> outputClosed
    /\ idleTick ~> outputClosed

C8_Witness ==
    /\ outputClosed
    /\ exitBy = "done"
    /\ paused
    /\ ~idleTick

\* C9: no OutputEvent sends on Output once Start has closed it.
C9_NoSendAfterClose == ~sendOnClosed

\* C10: the loop is never left for quiescence while a data source holds an
\* inbound request it has not consumed or a one-shot event task has not run.
C10_NoQuiescenceWithHeldWork == ~heldAtExit

\* A step of the loop that takes a tick between a Pause and the next Resume.
PausedCheckStep ==
    /\ startPC = "loop" /\ paused /\ paused'
    /\ tickPending /\ ~tickPending'
    /\ exitBy' # "done"

\* C11: between a Pause and the next Resume the loop executes no quiescence
\* check, and the engine never terminates by quiescence while it is paused.
C11_NoCheckWhilePaused ==
    /\ [][~PausedCheckStep]_vars
    /\ [](~(paused /\ exitBy = "tick"))

\* What a request's way through the engine consists of.
PipelineState ==
    << st, req, Output, outputClosed, inbox, oneShot, trustedNameFilter,
       otherNameFilter, MaxFlow, acquired, released, srcPC, active, started,
       stopped, startPC >>

C16_DrainExitsOnQuit ==
    \A s \in Sources :
        (s \in stopped /\ drain[s] # "off") ~> (drain[s] = "exited")

\* C13: when Start has returned an error, no service is left running and no
\* discovery is or gets emitted.
C13_NoPartialRun ==
    startPC = "error" =>
        /\ \A s \in AllServices : ~Running(s)
        /\ \A c \in Calls : st[c] # "emitted"
        /\ Output = <<>>

\* The settings CheckConfig refuses.
Refused(cfg) ==
    \/ ~cfg.HasOutput
    \/ cfg.Passive /\ (cfg.BruteForcing \/ cfg.Active \/ cfg.DataOptsWriter)

\* C14: with no output channel, or with Passive together with BruteForcing,
\* Active or a data operations writer, Start returns the error of
\* CheckConfig: no service is ever started and the flow limiter is never
\* created.
C14_RefusedConfig ==
    Refused(Config) =>
        /\ startPC \in {"idle", "error"}
        /\ started = {}
        /\ ~hasMaxFlow /\ MaxFlow = 0
        /\ \A s \in Sources : srcPC[s] = "off" /\ drain[s] = "off"

C14_Witness ==
    /\ startPC = "error"
    /\ Config.HasOutput /\ Config.Passive /\ Config.DataOptsWriter
    /\ ~Config.BruteForcing /\ ~Config.Active
    /\ started = {} /\ ~hasMaxFlow

\* The services of a passive enumeration.
PassiveServices == Sources \cup {"NameService", "AddressService"}

\* C15: a passive enumeration whose services all start has started the data
\* sources, the NameService and the AddressService and nothing else, and
\* never polls or stops another service; any other enumeration whose
\* services all start has started every service.
C15_ServiceSelection ==
    /\ startPC \in {"loop", "grace", "closed"} =>
            started = (IF Config.Passive THEN PassiveServices ELSE AllServices)
    /\ Config.Passive =>
            (started \subseteq PassiveServices /\ stopped \subseteq PassiveServices)
    /\ stopped \subseteq started
    /\ ~strayPoll

C15_Witness ==
    /\ Config.Passive
    /\ startPC = "closed" /\ exitBy = "tick"
    /\ started = PassiveServices /\ stopped = PassiveServices
    /\ \E c \in Calls : st[c] = "emitted"

\* The name is lower case, has no "*" label, has no leading dot, and ends
\* with the domain.
WellFormedName(n, domain) ==
    /\ ToLower(n) = n
    /\ \A i \in DOMAIN n : n[i] # "*"
    /\ n # <<>> /\ n[1] # ""
    /\ IsSuffix(domain, n)

\* C17: every request a data source built with cleanName and NewNameEvent
\* forwarded, and so every discovery on Output, carries a well-formed name.
C17_NamesNormalized ==
    \A c \in Calls : Forwarded(c) => WellFormedName(req[c].Name, req[c].Domain)

\* The names OutputEvent has sent on Output.
OutputSet == { req[c].Name : c \in { k \in Calls : st[k] = "emitted" } }

\* The names the sources handed in and NewNameEvent forwarded: in a passive
\* run nothing on the way to Output drops or fails a request, so the run
\* that carries every request through emits these.
ForwardedSet == { req[c].Name : c \in { k \in Calls : Forwarded(k) } }

\* C18: a run the engine ends by quiescence has emitted the names its sources
\* produced, whatever the order of the calls, the dedup decisions and the
\* ticks: two such runs on the same sources end with the same output set.
C18_SameOutputSet ==
    (startPC = "closed" /\ exitBy = "tick" /\ srcPC = [s \in Sources |-> "done"])
        => OutputSet = ForwardedSet

\* executeQuery of source s is at work on the k-th domain.
Querying(s, k) == query[s].pc \in {"fetch", "decode", "token", "post"} /\ query[s].domain = k

\* C19: executeQuery returns whatever the page holds, and startRootDomains
\* goes on to the remaining domains: a query at work on a domain is followed
\* by the query of the next domain, or by the return of startRootDomains.
C19_QueryTerminates ==
    \A s \in QuerySources : \A k \in 1 .. NumDomains :
        Querying(s, k) ~> (query[s].pc = "done" \/ query[s].domain > k)

\* C20: a call of NewNameEvent that waits in MaxFlow.Acquire goes on and
\* forwards its request to the NameService, with the permits the limiter
\* returns by itself and no permit released by a request.
C20_AcquireProceeds ==
    \A c \in Calls : (st[c] = "acquiring") ~> Forwarded(c)

C20_Witness ==
    /\ ~Config.Passive
    /\ \A c \in OneCallEach : acquired[c] /\ Forwarded(c) /\ released[c] = 0
    /\ autoReleases > 0
    /\ Cardinality(OneCallEach) > FlowCap

\* The task that runs NameService.Resolved for call c stands in OutputEvent
\* and its send cannot go on: the buffer of Output is full and nobody has
\* taken a discovery.
BlockedInOutputEvent(c) ==
    st[c] = "nsResolved" /\ ~outputClosed /\ Len(Output) >= OutputCap

\* C21: emitting an event never blocks the emitting task on a downstream
\* channel; in particular the task that calls OutputEvent is never held by
\* the send on Output.
C21_EmitNeverBlocks == \A c \in Calls : ~BlockedInOutputEvent(c)

\* C22: with an empty domain list and a configuration CheckConfig accepts, no
\* data source calls NewNameEvent, the first tick the loop takes leaves it,
\* and Start closes Output with no discovery emitted.
C22_EmptyDomains ==
    /\ [](~Config.HasDomains =>
            /\ CheckConfig(Config) = Nil
            /\ \A c \in Calls : st[c] = "none"
            /\ \A s \in Sources : srcPC[s] \in {"off", "done"}
            /\ Output = <<>>)
    /\ [][(~Config.HasDomains /\ Tick) => (startPC' = "grace" /\ exitBy' = "tick")]_vars
    /\ (~Config.HasDomains /\ startPC = "loop") ~> (outputClosed /\ Output = <<>>)

C22_Witness ==
    /\ ~Config.HasDomains
    /\ startPC = "closed" /\ exitBy = "tick" /\ outputClosed
    /\ started = Before(Services(Config), 0)
    /\ \A s \in Sources : srcPC[s] = "done"
    /\ Output = <<>>

\* C23: a tick of the loop polls the flag of every started service and resets
\* it, also when it finds a service active: right after the tick no started
\* service has its flag set.
C23_TickResetsAll ==
    [][Tick => \A s \in AllServices : Started(s) => ~active'[s]]_vars

\* C24: whichever way the loop is left, Start stops every started service in
\* one pass, once, before it closes Output, and it closes Output once: the
\* services are stopped by the step that leaves the loop and by no other,
\* Output is closed after that step only, and it stays closed.
C24_StopThenClose ==
    /\ [][(stopped' # stopped \/ (startPC # "grace" /\ startPC' = "grace")) =>
            /\ startPC = "loop" /\ startPC' = "grace"
            /\ exitBy' \in {"tick", "done"}
            /\ stopped = {} /\ stopped' = started
            /\ ~outputClosed /\ ~outputClosed']_vars
    /\ [][(outputClosed' # outputClosed) =>
            /\ ~outputClosed
            /\ startPC = "grace" /\ startPC' = "closed"
            /\ stopped = started /\ started # {}]_vars
    /\ [](startPC = "closed" => outputClosed)
    /\ [][(startPC \in {"grace", "closed"}) => (startPC' \in {"grace", "closed"})]_vars
    /\ (startPC = "grace") ~> outputClosed

C24_Witness ==
    /\ startPC = "closed" /\ outputClosed
    /\ exitBy = "done" /\ ~paused
    /\ started # {} /\ stopped = started
    /\ \A s \in Sources : drain[s] = "exited"

\* The request r is nil or lacks its name or its domain.
IllFormed(r) == r.IsNil \/ r.Name = <<>> \/ r.Domain = <<>>

\* The name of r, as NewNameEvent rewrites it, is in the filter of the
\* partition of call c.
SeenInPartition(c, r) ==
    LET name == ToLower(RemoveAsteriskLabel(r.Name))
    IN  IF Trusted(c) THEN name \in trustedNameFilter ELSE name \in otherNameFilter

\* What a call c of NewNameEvent with the request r is to do.
NewNameEventEffect(c, r) ==
    /\ MaxFlow' = MaxFlow
    /\ (st'[c] = "acquiring") <=>
            (~Config.Passive /\ ~IllFormed(r) /\ ~SeenInPartition(c, r))
    /\ IllFormed(r) =>
            /\ trustedNameFilter' = trustedNameFilter
            /\ otherNameFilter' = otherNameFilter
            /\ st'[c] = "rejected"
    /\ (~IllFormed(r) /\ SeenInPartition(c, r)) => st'[c] = "dup"
    /\ (Config.Passive /\ ~IllFormed(r) /\ ~SeenInPartition(c, r)) => st'[c] = "nsSend"

\* C25: NewNameEvent goes to the flow limiter for a permit exactly when the
\* run is non-passive and the request is well formed and no duplicate in
\* its partition; a nil or malformed request leaves the filters and the
\* limiter alone, a duplicate leaves the limiter alone, and neither is
\* forwarded.  A permit is taken by a call that waits for it and by nothing
\* else.
C25_PermitIffAccepted ==
    /\ [][\A c \in Calls, r \in RawRequests :
            NewNameEvent(c, r) => NewNameEventEffect(c, r)]_vars
    /\ [][MaxFlow' < MaxFlow =>
            \E c \in Calls : st[c] = "acquiring" /\ ~acquired[c] /\ acquired'[c]
                             /\ st'[c] = "nsSend" /\ MaxFlow' = MaxFlow - 1]_vars
    /\ [](\A c \in Calls :
            /\ acquired[c] => (~Config.Passive /\ Forwarded(c))
            /\ st[c] \in {"rejected", "dup"} => ~acquired[c]
            /\ (Forwarded(c) /\ ~Config.Passive) => acquired[c])

C25_Witness ==
    /\ ~Config.Passive
    /\ \E c1, c2, c3 \in Calls :
        /\ st[c1] = "rejected" /\ st[c2] = "dup" /\ acquired[c3] /\ Forwarded(c3)
        /\ req[c2].Name = req[c3].Name
        /\ MaxFlow = Capacity - 1

\* The response handler stands in a send of linksAndNames.
HandlerSending == crawler.handler \in {"name", "link"}

\* C26: a crawl whose seed was accepted returns once its timer has fired, its
\* queue is done or the owning service has quit, and after it has returned
\* no response handler stays in a send on the links or the names channel.
C26_CrawlReturnsClean ==
    /\ (crawler.pc = "loop" /\ (crawler.timer \/ crawler.qdone \/ crawler.quit))
            ~> (crawler.pc = "returned")
    /\ (crawler.pc = "returned" /\ HandlerSending) ~> ~HandlerSending

====
